---- MODULE Spec2Model ----
(***************************************************************************)
(* birq: a daemon that balances IRQ affinity between CPUs.                 *)
(*                                                                         *)
(* The model follows main() of birq.c statement block by statement block   *)
(* (variable pc is main's position), the two signal handlers, and          *)
(* parse_config() with its opt_parse_* helpers.  The engine functions      *)
(* main() calls (scan_irqs, link_irqs_to_cpus, gather_statistics,          *)
(* choose_irqs_to_move, balance, apply_affinity) and the cpumask parser    *)
(* live in other translation units; they are modelled from sections 4.1 to *)
(* 4.8 of the specification.                                               *)
(***************************************************************************)
EXTENDS Integers, Sequences, FiniteSets, TLC

(***************************************************************************)
(* Bounds and fixtures                                                     *)
(***************************************************************************)

\* IRQ numbers the kernel may list are 1..MaxIrq.
MaxIrq == 2

\* The machine: CoreId[c + 1] is the core of logical CPU c.  CPUs 0 and 2
\* are hyper-thread siblings, CPU 1 has a core of its own.
CoreId == <<0, 1, 0>>

AllCpus == 0 .. (Len(CoreId) - 1)

IRQS == 1 .. MaxIrq

\* CPU load percentages a sample may report.
Loads == {10, 95}

\* The smp_affinity mask the kernel holds for IRQ i before the daemon writes
\* one: cpu2 alone for odd IRQ numbers, cpu0 and cpu1 for even ones.
BootAffinity(i) == IF i % 2 = 1 THEN {2} ELSE {0, 1}

\* CPUs that are NUMA-local to the device raising IRQ i: unknown (all) for
\* odd IRQ numbers, node 0 = {cpu0, cpu1} for even ones.
LocalCpus(i) == IF i % 2 = 1 THEN AllCpus ELSE {0, 1}

NoCpu == -1

(***************************************************************************)
(* Configuration texts.  A numeric text is <<"num", n>>, any other text is *)
(* <<"txt", s>>.  A mask text is the sequence of its characters, a hex     *)
(* digit as its value 0..15, any other character as 16.                    *)
(***************************************************************************)

Num(n) == <<"num", n>>
Txt(s) == <<"txt", s>>
IsNum(t) == t[1] = "num"

BIRQ_DEFAULT_THRESHOLD == 99
BIRQ_DEFAULT_LOAD_LIMIT == 99
BIRQ_LONG_INTERVAL == 5
BIRQ_SHORT_INTERVAL == 2

\* The modulus of the unsigned int an interval is stored in.  TLC's
\* integers are 32-bit signed, so the type is modelled 30 bits wide: a
\* negative text still wraps to a huge positive value.
UIntMod == 2 ^ 30

\* The options a config file sets (struct options, the fields
\* opts_default_config assigns).
OptKeys == {"strategy", "threshold", "load-limit", "short-interval",
            "long-interval", "exclude-cpus", "use-cpus", "ht",
            "non-local-cpus"}

\* A file with no keys; the other files are written as changes to it.
FileBase ==
    [ok |-> TRUE, keys |-> {},
     strategy |-> Txt("rnd"), threshold |-> Num(0), load_limit |-> Num(0),
     short_interval |-> Num(0), long_interval |-> Num(0),
     exclude_cpus |-> <<0>>, use_cpus |-> <<0>>,
     ht |-> Txt("y"), non_local_cpus |-> Txt("n")]

FEmpty == FileBase

FTuned ==
    [FileBase EXCEPT !.keys = {"strategy", "threshold", "load-limit",
                               "short-interval", "long-interval",
                               "exclude-cpus", "non-local-cpus"},
                     !.strategy = Txt("max"), !.threshold = Num(90),
                     !.load_limit = Num(80), !.short_interval = Num(1),
                     !.long_interval = Num(3), !.exclude_cpus = <<1>>,
                     !.non_local_cpus = Txt("no")]

FUse ==
    [FileBase EXCEPT !.keys = {"strategy", "load-limit", "exclude-cpus",
                               "use-cpus", "ht", "non-local-cpus"},
                     !.strategy = Txt("min"), !.load_limit = Num(80),
                     !.exclude_cpus = <<2>>, !.use_cpus = <<3>>,
                     !.ht = Txt("n"), !.non_local_cpus = Txt("y")]

FBadHt ==
    [FileBase EXCEPT !.keys = {"exclude-cpus", "ht"},
                     !.exclude_cpus = <<4>>, !.ht = Txt("maybe")]

FSyntax == [FileBase EXCEPT !.ok = FALSE]

\* A file whose numbers lie outside the documented ranges.
FRange ==
    [FileBase EXCEPT !.keys = {"threshold", "load-limit", "short-interval",
                               "long-interval"},
                     !.threshold = Num(-5), !.load_limit = Num(-1),
                     !.short_interval = Num(0), !.long_interval = Num(-1)]

\* The config files an operator may have in place when the daemon reads.
FileNames == {"empty", "tuned", "use", "badht", "syntax", "range"}

ConfigFile(n) ==
    CASE n = "empty" -> FEmpty
      [] n = "tuned" -> FTuned
      [] n = "use" -> FUse
      [] n = "badht" -> FBadHt
      [] n = "syntax" -> FSyntax
      [] n = "range" -> FRange

Has(f, key) == key \in f.keys

(***************************************************************************)
(* CPU masks (specification 4.1)                                           *)
(***************************************************************************)

HexBits(d) == {b \in 0 .. 3 : (d \div (2 ^ b)) % 2 = 1}

\* Kernel-hex parse of one group: the rightmost digit holds bits 0..3.  A
\* non-hex character fails the parse and leaves the destination as it was.
cpumask_parse_user(txt, dst) ==
    IF txt = <<>> \/ \E k \in 1 .. Len(txt) : txt[k] > 15
    THEN [rc |-> -1, mask |-> dst]
    ELSE [rc |-> 0,
          mask |-> {c \in AllCpus :
                      \E k \in 1 .. Len(txt) :
                         \E b \in HexBits(txt[k]) :
                            c = 4 * (Len(txt) - k) + b}]

cpus_complement(m) == AllCpus \ m

cpus_or(a, b) == a \cup b

(***************************************************************************)
(* Option parsers                                                          *)
(***************************************************************************)

opt_parse_y_n(optarg, flag) ==
    IF IsNum(optarg) THEN [rc |-> -1, val |-> flag]
    ELSE IF optarg[2] = "y" THEN [rc |-> 0, val |-> 1]
    ELSE IF optarg[2] = "yes" THEN [rc |-> 0, val |-> 1]
    ELSE IF optarg[2] = "n" THEN [rc |-> 0, val |-> 0]
    ELSE IF optarg[2] = "no" THEN [rc |-> 0, val |-> 0]
    ELSE [rc |-> -1, val |-> flag]

opt_parse_strategy(optarg, strategy) ==
    IF IsNum(optarg) THEN [rc |-> -1, val |-> strategy]
    ELSE IF optarg[2] = "max" THEN [rc |-> 0, val |-> "max"]
    ELSE IF optarg[2] = "min" THEN [rc |-> 0, val |-> "min"]
    ELSE IF optarg[2] = "rnd" THEN [rc |-> 0, val |-> "rnd"]
    ELSE [rc |-> -1, val |-> strategy]

\* strtof: no digits is an error; a value above 100 is an error.
opt_parse_threshold(optarg, threshold) ==
    IF ~IsNum(optarg) THEN [rc |-> -1, val |-> threshold]
    ELSE IF optarg[2] > 100 THEN [rc |-> -1, val |-> threshold]
    ELSE [rc |-> 0, val |-> optarg[2]]

\* strtoul, stored in an unsigned int.
opt_parse_interval(optarg, interval) ==
    IF ~IsNum(optarg) THEN [rc |-> -1, val |-> interval]
    ELSE [rc |-> 0, val |-> optarg[2] % UIntMod]

(***************************************************************************)
(* parse_config                                                            *)
(***************************************************************************)

\* The variant of opts_default_config that leaves the exclusion mask alone.
opts_default_config_keep_mask(o) ==
    [o EXCEPT !.threshold = BIRQ_DEFAULT_THRESHOLD,
              !.load_limit = BIRQ_DEFAULT_LOAD_LIMIT,
              !.ht = 1,
              !.non_local_cpus = 0,
              !.long_interval = BIRQ_LONG_INTERVAL,
              !.short_interval = BIRQ_SHORT_INTERVAL,
              !.strategy = "rnd"]

opts_default_config(o) ==
    [o EXCEPT !.threshold = BIRQ_DEFAULT_THRESHOLD,
              !.load_limit = BIRQ_DEFAULT_LOAD_LIMIT,
              !.ht = 1,
              !.non_local_cpus = 0,
              !.long_interval = BIRQ_LONG_INTERVAL,
              !.short_interval = BIRQ_SHORT_INTERVAL,
              !.strategy = "rnd",
              !.exclude_cpus = {}]

\* One "if ((tmp = lub_ini_find(ini, key))) if (parse(...)) goto err;" of
\* parse_config: r is [err, opts]; after a goto err nothing more is parsed.
cfg_strategy(f, r) ==
    IF r.err \/ ~Has(f, "strategy") THEN r
    ELSE LET p == opt_parse_strategy(f.strategy, r.opts.strategy)
         IN  [err |-> p.rc < 0, opts |-> [r.opts EXCEPT !.strategy = p.val]]

cfg_threshold(f, r) ==
    IF r.err \/ ~Has(f, "threshold") THEN r
    ELSE LET p == opt_parse_threshold(f.threshold, r.opts.threshold)
         IN  [err |-> p.rc # 0, opts |-> [r.opts EXCEPT !.threshold = p.val]]

cfg_load_limit(f, r) ==
    IF r.err \/ ~Has(f, "load-limit") THEN r
    ELSE LET p == opt_parse_threshold(f.load_limit, r.opts.load_limit)
         IN  [err |-> p.rc # 0, opts |-> [r.opts EXCEPT !.load_limit = p.val]]

cfg_short_interval(f, r) ==
    IF r.err \/ ~Has(f, "short-interval") THEN r
    ELSE LET p == opt_parse_interval(f.short_interval, r.opts.short_interval)
         IN  [err |-> p.rc # 0,
              opts |-> [r.opts EXCEPT !.short_interval = p.val]]

cfg_long_interval(f, r) ==
    IF r.err \/ ~Has(f, "long-interval") THEN r
    ELSE LET p == opt_parse_interval(f.long_interval, r.opts.long_interval)
         IN  [err |-> p.rc # 0,
              opts |-> [r.opts EXCEPT !.long_interval = p.val]]

cfg_exclude_cpus(f, r) ==
    IF r.err \/ ~Has(f, "exclude-cpus") THEN r
    ELSE LET p == cpumask_parse_user(f.exclude_cpus, r.opts.exclude_cpus)
         IN  [err |-> p.rc # 0,
              opts |-> [r.opts EXCEPT !.exclude_cpus = p.mask]]

\* use-cpus: parsed into a local mask (all CPUs when the key is absent),
\* complemented and or-ed into exclude_cpus.
cfg_use_cpus(f, r) ==
    IF r.err THEN r
    ELSE LET p == IF Has(f, "use-cpus")
                  THEN cpumask_parse_user(f.use_cpus, {})
                  ELSE [rc |-> 0, mask |-> AllCpus]
         IN  IF p.rc # 0 THEN [err |-> TRUE, opts |-> r.opts]
             ELSE [err |-> FALSE,
                   opts |-> [r.opts EXCEPT !.exclude_cpus =
                               cpus_or(r.opts.exclude_cpus,
                                       cpus_complement(p.mask))]]

cfg_ht(f, r) ==
    IF r.err \/ ~Has(f, "ht") THEN r
    ELSE LET p == opt_parse_y_n(f.ht, r.opts.ht)
         IN  [err |-> p.rc # 0, opts |-> [r.opts EXCEPT !.ht = p.val]]

cfg_non_local_cpus(f, r) ==
    IF r.err \/ ~Has(f, "non-local-cpus") THEN r
    ELSE LET p == opt_parse_y_n(f.non_local_cpus, r.opts.non_local_cpus)
         IN  [err |-> p.rc # 0,
              opts |-> [r.opts EXCEPT !.non_local_cpus = p.val]]

\* parse_config(fname, opts): [rc, opts] where opts is what the structure
\* holds when the function returns.
parse_config(f, o) ==
    LET d == opts_default_config(o)
    IN  IF ~f.ok THEN [rc |-> -1, opts |-> d]
        ELSE LET r == cfg_non_local_cpus(f, cfg_ht(f, cfg_use_cpus(f,
                        cfg_exclude_cpus(f, cfg_long_interval(f,
                        cfg_short_interval(f, cfg_load_limit(f,
                        cfg_threshold(f, cfg_strategy(f,
                        [err |-> FALSE, opts |-> d])))))))))
             IN  [rc |-> IF r.err THEN -1 ELSE 0, opts |-> r.opts]

(***************************************************************************)
(* State                                                                   *)
(***************************************************************************)

VARIABLES
    pc,            \* main's position
    retval,        \* main's retval
    sigterm,       \* static volatile int sigterm
    sighup,        \* static volatile int sighup
    opts,          \* the config-file fields of struct options
    interval,      \* main's interval
    cpus,          \* the CPU list built by scan_cpus
    irqs,          \* the IRQ registry (IRQ numbers)
    affinity,      \* Irq.affinity of each IRQ
    owner,         \* the CPU whose irqs list holds each IRQ
    cpu_load,      \* Cpu.load of each CPU, from its sample to its last use
    have_prev,     \* a previous sample of the jiffy counters exists
    balance_irqs,  \* the balance queue
    kaff,          \* the kernel's /proc/irq/<N>/smp_affinity
    freed,         \* the lists were released (lines 252..256)
    \* history variables
    hup_pending,   \* a SIGHUP was delivered, no reload began after it, and
                   \* main has not gone on to the rescan without it
    inforce,       \* the file of the last load that succeeded, or "none"
    last_parse,    \* the load just made: its file and how it ended
    log,           \* the stages the current tick ran, in order
    sel_queue,     \* the balance queue as selection left it in this tick
    new_irqs,      \* the IRQs scan_irqs found new in this tick
    prior,         \* each IRQ's affinity when balance began in this tick
    placed         \* the CPU balance chose for each IRQ in this tick

vars == <<pc, retval, sigterm, sighup, opts, interval, cpus, irqs, affinity,
          owner, cpu_load, have_prev, balance_irqs, kaff, freed, hup_pending,
          inforce, last_parse, log, sel_queue, new_irqs, prior, placed>>

\* The variables of the engine's data (lists, kernel view).
engine == <<cpus, irqs, affinity, owner, cpu_load, have_prev, balance_irqs,
            kaff>>

\* The per-tick history variables other than log.
tickhist == <<sel_queue, new_irqs, prior, placed>>

cfghist == <<inforce, last_parse>>

Min(S) == CHOOSE x \in S : \A y \in S : x <= y

NoIrqs == [i \in IRQS |-> NoCpu]

NoMasks == [i \in IRQS |-> {}]

NoLoad == [c \in AllCpus |-> 0]

NoParse == [rc |-> "none", file |-> "none"]

\* What the config fields of a malloc'ed struct options may hold before
\* opts_default_config has run (exclude_cpus is set up by cpus_init): the
\* memory may be all zero bytes, and it may as well hold the very values
\* the defaults would give.
ZeroOpts ==
    [strategy |-> "max", threshold |-> 0, load_limit |-> 0,
     short_interval |-> 0, long_interval |-> 0, exclude_cpus |-> {},
     ht |-> 0, non_local_cpus |-> 0]

Indeterminate == {ZeroOpts, opts_default_config(ZeroOpts)}

StartupPcs == {"startup_config", "daemonize", "pidfile", "pidfile_warn",
               "setup"}

LoopPcs == {"loop_test", "reconfig_test", "reconfig_read", "reconfig_reset",
            "scan", "link", "gather", "choose", "qtest", "balance", "apply",
            "clear", "sleep"}

\* The state when opts_init and opts_parse have returned (lines 98..100).
Init ==
    /\ pc = "startup_config"
    /\ retval = -1
    /\ sigterm = 0
    /\ sighup = 0
    /\ opts \in Indeterminate
    /\ interval = 0
    /\ cpus = {}
    /\ irqs = {}
    /\ affinity = NoMasks
    /\ owner = NoIrqs
    /\ cpu_load = NoLoad
    /\ have_prev = FALSE
    /\ balance_irqs = {}
    /\ kaff = [i \in IRQS |-> BootAffinity(i)]
    /\ freed = FALSE
    /\ hup_pending = FALSE
    /\ inforce = "none"
    /\ last_parse = NoParse
    /\ log = <<>>
    /\ sel_queue = {}
    /\ new_irqs = {}
    /\ prior = NoMasks
    /\ placed = NoIrqs

(***************************************************************************)
(* The engine (specification 4.2 to 4.8)                                   *)
(***************************************************************************)

\* scan_cpus: with ht disabled only the lowest-numbered CPU of each core is
\* kept.
scan_cpus(ht) ==
    IF ht # 0 THEN AllCpus
    ELSE {c \in AllCpus :
            \A d \in AllCpus : CoreId[d + 1] = CoreId[c + 1] => c <= d}

\* A link step that takes the highest-numbered CPU of the mask.
LinkOwner_last_cpu(aff, cs) ==
    IF aff = {} THEN NoCpu
    ELSE CHOOSE c \in aff : \A d \in aff : d <= c

\* link_irqs_to_cpus, for one IRQ: the lowest-numbered CPU of the affinity
\* mask, or the lowest sibling kept in the model when that CPU was omitted.
LinkOwner(aff, cs) ==
    IF aff = {} THEN NoCpu
    ELSE LET m == Min(aff)
             sib == {c \in cs : CoreId[c + 1] = CoreId[m + 1]}
         IN  IF m \in cs THEN m
             ELSE IF sib = {} THEN NoCpu
             ELSE Min(sib)

\* choose_irqs_to_move, for one CPU: the IRQs it may pick, those the CPU owns
\* and the queue does not hold yet.  Which of them is the heaviest or the
\* lightest depends on the interrupt counts of the sample, which are inputs:
\* under every strategy each of them may be the one picked.
StrategyPicks(c, queue, strategy) ==
    {i \in irqs \ queue : owner[i] = c}

\* choose_irqs_to_move: the queues it may leave.  One IRQ is taken from each
\* CPU that is at or above the threshold, is not excluded and owns an IRQ.
choose_irqs_to_move(cs, queue, threshold, strategy, exclude) ==
    LET hot == {c \in cs : /\ cpu_load[c] >= threshold
                           /\ c \notin exclude
                           /\ StrategyPicks(c, queue, strategy) # {}}
    IN  {queue \cup {p[c] : c \in hot} :
           p \in {q \in [hot -> IRQS] :
                    \A c \in hot : q[c] \in StrategyPicks(c, queue, strategy)}}

\* balance, for one IRQ: the candidate CPUs.
Candidates(i, cs, load_limit, exclude, non_local) ==
    LET base == {c \in cs : c \notin exclude /\ cpu_load[c] < load_limit}
        loc == base \cap LocalCpus(i)
    IN  IF LocalCpus(i) = AllCpus THEN base
        ELSE IF loc # {} THEN loc
        ELSE IF non_local # 0 THEN base
        ELSE {}

\* balance, for one IRQ: the candidate of lowest load, ties to the lowest
\* id; NoCpu when there is no candidate.
choose_cpu(i, cs, load_limit, exclude, non_local) ==
    LET cand == Candidates(i, cs, load_limit, exclude, non_local)
    IN  IF cand = {} THEN NoCpu
        ELSE CHOOSE c \in cand :
                \A d \in cand :
                   \/ cpu_load[c] < cpu_load[d]
                   \/ (cpu_load[c] = cpu_load[d] /\ c <= d)

\* balance: the destination of every queued IRQ.  Loads are not changed
\* within a tick, so the placements do not depend on each other.
balance(cs, queue, load_limit, exclude, non_local) ==
    [i \in IRQS |-> IF i \in queue
                    THEN choose_cpu(i, cs, load_limit, exclude, non_local)
                    ELSE NoCpu]

(***************************************************************************)
(* Signal handlers                                                         *)
(***************************************************************************)

\* The handlers are installed by sigaction() at lines 150..161 and stay
\* installed until the process returns.
HandlersInstalled == pc \in LoopPcs \cup {"cleanup"}

sighandler ==
    /\ HandlersInstalled
    /\ sigterm' = 1
    /\ UNCHANGED <<pc, retval, sighup, opts, interval, engine, freed,
                   hup_pending, cfghist, log, tickhist>>

\* A SIGHUP handler that re-reads the config file itself.
sighup_handler_reloads ==
    /\ HandlersInstalled
    /\ sighup' = 1
    /\ hup_pending' = TRUE
    /\ \E n \in FileNames : opts' = parse_config(ConfigFile(n), opts).opts
    /\ UNCHANGED <<pc, retval, sigterm, interval, engine, freed, cfghist,
                   log, tickhist>>

sighup_handler ==
    /\ HandlersInstalled
    /\ sighup' = 1
    /\ hup_pending' = TRUE
    /\ UNCHANGED <<pc, retval, sigterm, opts, interval, engine, freed,
                   cfghist, log, tickhist>>

(***************************************************************************)
(* main: start-up                                                          *)
(***************************************************************************)

\* What a load does to the history variables.
Loaded(n, rc) ==
    /\ last_parse' = [rc |-> IF rc = 0 THEN "ok" ELSE "fail", file |-> n]
    /\ inforce' = IF rc = 0 THEN n ELSE inforce

\* Lines 103..110: the config file is parsed when it is readable; a missing
\* file is an error only when -c named it (cfgfile_userdefined).
StartupConfig ==
    /\ pc = "startup_config"
    /\ \E readable \in BOOLEAN, cfgfile_userdefined \in {0, 1},
          n \in FileNames :
          IF readable
          THEN LET r == parse_config(ConfigFile(n), opts)
               IN  /\ opts' = r.opts
                   /\ Loaded(n, r.rc)
                   /\ pc' = IF r.rc # 0 THEN "err" ELSE "daemonize"
          ELSE /\ pc' = IF cfgfile_userdefined # 0 THEN "err"
                        ELSE "daemonize"
               /\ UNCHANGED <<opts, cfghist>>
    /\ UNCHANGED <<retval, sigterm, sighup, interval, engine, freed,
                   hup_pending, log, tickhist>>

\* Lines 113..122: in debug mode (-d) nothing is forked and no pidfile is
\* written; otherwise daemon() may fail.
Daemonize ==
    /\ pc = "daemonize"
    /\ \E debug \in {0, 1}, daemon_ok \in BOOLEAN :
          pc' = IF debug # 0 THEN "setup"
                ELSE IF ~daemon_ok THEN "err"
                ELSE "pidfile"
    /\ last_parse' = NoParse
    /\ UNCHANGED <<retval, sigterm, sighup, opts, interval, engine, freed,
                   hup_pending, inforce, log, tickhist>>

\* Lines 125..127 and 130..138: open() of the pidfile.
OpenPidfile ==
    /\ pc = "pidfile"
    /\ \E open_ok \in BOOLEAN :
          pc' = IF open_ok THEN "setup" ELSE "pidfile_warn"
    /\ UNCHANGED <<retval, sigterm, sighup, opts, interval, engine, freed,
                   hup_pending, cfghist, log, tickhist>>

\* Lines 128..129: a pidfile that cannot be opened is logged.
PidfileWarn ==
    /\ pc = "pidfile_warn"
    /\ pc' = "setup"
    /\ UNCHANGED <<retval, sigterm, sighup, opts, interval, engine, freed,
                   hup_pending, cfghist, log, tickhist>>

\* Lines 141..187: handlers, NUMA and CPU scan, empty IRQ lists.
Setup ==
    /\ pc = "setup"
    /\ cpus' = scan_cpus(opts.ht)
    /\ irqs' = {}
    /\ balance_irqs' = {}
    /\ pc' = "loop_test"
    /\ UNCHANGED <<retval, sigterm, sighup, opts, interval, affinity, owner,
                   cpu_load, have_prev, kaff, freed, hup_pending, cfghist,
                   log, tickhist>>

(***************************************************************************)
(* main: the tick loop                                                     *)
(***************************************************************************)

\* A loop test that does not look at the flag.
LoopTest_ignore_flag ==
    /\ pc = "loop_test"
    /\ pc' = "reconfig_test"
    /\ log' = <<>>
    /\ sel_queue' = {}
    /\ UNCHANGED <<retval, sigterm, sighup, opts, interval, engine, freed,
                   hup_pending, cfghist, new_irqs, prior, placed>>

\* Line 190: while (!sigterm).  A new tick starts with an empty history.
LoopTest ==
    /\ pc = "loop_test"
    /\ pc' = IF sigterm # 0 THEN "cleanup" ELSE "reconfig_test"
    /\ log' = <<>>
    /\ sel_queue' = {}
    /\ UNCHANGED <<retval, sigterm, sighup, opts, interval, engine, freed,
                   hup_pending, cfghist, new_irqs, prior, placed>>

\* Line 204: if (sighup).
ReconfigTest ==
    /\ pc = "reconfig_test"
    /\ pc' = IF sighup # 0 THEN "reconfig_read" ELSE "scan"
    /\ log' = Append(log, "reconfig")
    /\ UNCHANGED <<retval, sigterm, sighup, opts, interval, engine, freed,
                   hup_pending, cfghist, tickhist>>

\* A reload that scans the CPUs again with the ht value it has read.
ReconfigRead_rescan_cpus ==
    /\ pc = "reconfig_read"
    /\ \E readable \in BOOLEAN, n \in FileNames :
          IF readable
          THEN LET r == parse_config(ConfigFile(n), opts)
               IN  opts' = r.opts /\ Loaded(n, r.rc)
          ELSE /\ last_parse' = [rc |-> "noaccess", file |-> "none"]
               /\ UNCHANGED <<opts, inforce>>
    /\ cpus' = scan_cpus(opts'.ht)
    /\ hup_pending' = FALSE
    /\ pc' = "reconfig_reset"
    /\ UNCHANGED <<retval, sigterm, sighup, interval, irqs, affinity, owner,
                   cpu_load, have_prev, balance_irqs, kaff, freed, log,
                   tickhist>>

\* Lines 205..210: access() and parse_config(); the result is only logged.
ReconfigRead ==
    /\ pc = "reconfig_read"
    /\ \E readable \in BOOLEAN, n \in FileNames :
          IF readable
          THEN LET r == parse_config(ConfigFile(n), opts)
               IN  opts' = r.opts /\ Loaded(n, r.rc)
          ELSE /\ last_parse' = [rc |-> "noaccess", file |-> "none"]
               /\ UNCHANGED <<opts, inforce>>
    /\ hup_pending' = FALSE
    /\ pc' = "reconfig_reset"
    /\ UNCHANGED <<retval, sigterm, sighup, interval, engine, freed, log,
                   tickhist>>

\* Line 211: sighup = 0.
ReconfigReset ==
    /\ pc = "reconfig_reset"
    /\ sighup' = 0
    /\ pc' = "scan"
    /\ UNCHANGED <<retval, sigterm, opts, interval, engine, freed,
                   hup_pending, cfghist, log, tickhist>>

\* A rescan that queues every IRQ it lists, known or new.
scan_irqs_requeue_all(ok, listed) ==
    IF ok
    THEN /\ irqs' = listed
         /\ affinity' = [i \in IRQS |-> IF i \in listed THEN kaff[i] ELSE {}]
         /\ owner' = [i \in IRQS |-> IF i \in listed THEN owner[i] ELSE NoCpu]
         /\ balance_irqs' = listed
         /\ new_irqs' = listed \ irqs
         /\ kaff' = [i \in IRQS |-> IF i \in listed THEN kaff[i]
                                    ELSE BootAffinity(i)]
    ELSE UNCHANGED <<irqs, affinity, owner, balance_irqs, new_irqs, kaff>>

\* scan_irqs(irqs, balance_irqs, pxms): the kernel lists the IRQs in
\* `listed`; each has its smp_affinity read, a new one is queued for
\* balancing, one no longer listed is dropped (its device is gone: the
\* kernel gives it the boot mask when it comes back).  A failed scan changes
\* nothing.
scan_irqs(ok, listed) ==
    IF ok
    THEN /\ irqs' = listed
         /\ affinity' = [i \in IRQS |-> IF i \in listed THEN kaff[i] ELSE {}]
         /\ owner' = [i \in IRQS |-> IF i \in listed THEN owner[i] ELSE NoCpu]
         /\ balance_irqs' = (balance_irqs \cap listed) \cup (listed \ irqs)
         /\ new_irqs' = listed \ irqs
         /\ kaff' = [i \in IRQS |-> IF i \in listed THEN kaff[i]
                                    ELSE BootAffinity(i)]
    ELSE UNCHANGED <<irqs, affinity, owner, balance_irqs, new_irqs, kaff>>

\* A rescan whose failure ends the loop.
Scan_abort_on_error ==
    /\ pc = "scan"
    /\ \E ok \in BOOLEAN, listed \in SUBSET IRQS :
          /\ scan_irqs(ok, listed)
          /\ pc' = IF ok THEN "link" ELSE "cleanup"
    /\ hup_pending' = (hup_pending /\ sighup # 0)
    /\ last_parse' = NoParse
    /\ log' = Append(log, "scan")
    /\ UNCHANGED <<retval, sigterm, sighup, opts, interval, cpus, cpu_load,
                   have_prev, freed, inforce, sel_queue, prior, placed>>

\* Line 215: scan_irqs(); its return value is not looked at.  The reload is
\* history from here on, and so is a request whose flag line 211 has reset.
Scan ==
    /\ pc = "scan"
    /\ \E ok \in BOOLEAN, listed \in SUBSET IRQS : scan_irqs(ok, listed)
    /\ hup_pending' = (hup_pending /\ sighup # 0)
    /\ last_parse' = NoParse
    /\ pc' = "link"
    /\ log' = Append(log, "scan")
    /\ UNCHANGED <<retval, sigterm, sighup, opts, interval, cpus, cpu_load,
                   have_prev, freed, inforce, sel_queue, prior, placed>>

\* Line 219: link_irqs_to_cpus(cpus, irqs).
Link ==
    /\ pc = "link"
    /\ owner' = [i \in IRQS |-> IF i \in irqs
                                THEN LinkOwner(affinity[i], cpus)
                                ELSE NoCpu]
    /\ pc' = "gather"
    /\ log' = Append(log, "link")
    /\ UNCHANGED <<retval, sigterm, sighup, opts, interval, cpus, irqs,
                   affinity, cpu_load, have_prev, balance_irqs, kaff, freed,
                   hup_pending, cfghist, tickhist>>

\* gather_statistics(cpus, irqs): the load of each CPU of the model becomes
\* ld[c]; the first sample has no previous counters and gives load 0.  When
\* the read fails the loads stay those of an earlier sample, which ld stands
\* for as well, and no counters are kept.
gather_statistics(ok, ld) ==
    /\ cpu_load' = [c \in AllCpus |->
                      IF c \in cpus /\ have_prev THEN ld[c] ELSE 0]
    /\ have_prev' = (have_prev \/ ok)

\* Lines 222..223: gather_statistics(); its return value is not looked at.
Gather ==
    /\ pc = "gather"
    /\ \E ok \in BOOLEAN, ld \in [AllCpus -> Loads] : gather_statistics(ok, ld)
    /\ pc' = "choose"
    /\ log' = Append(log, "gather")
    /\ UNCHANGED <<retval, sigterm, sighup, opts, interval, cpus, irqs,
                   affinity, owner, balance_irqs, kaff, freed, hup_pending,
                   cfghist, tickhist>>

\* A selection that is handed the load limit where the threshold belongs.
Choose_load_limit_as_threshold ==
    /\ pc = "choose"
    /\ \E q \in choose_irqs_to_move(cpus, balance_irqs, opts.load_limit,
                                    opts.strategy, opts.exclude_cpus) :
          /\ balance_irqs' = q
          /\ sel_queue' = q
    /\ pc' = "qtest"
    /\ log' = Append(log, "choose")
    /\ UNCHANGED <<retval, sigterm, sighup, opts, interval, cpus, irqs,
                   affinity, owner, cpu_load, have_prev, kaff, freed,
                   hup_pending, cfghist, new_irqs, prior, placed>>

\* Lines 225..226: choose_irqs_to_move(cpus, balance_irqs, opts->threshold,
\* opts->strategy, &opts->exclude_cpus).
Choose ==
    /\ pc = "choose"
    /\ \E q \in choose_irqs_to_move(cpus, balance_irqs, opts.threshold,
                                    opts.strategy, opts.exclude_cpus) :
          /\ balance_irqs' = q
          /\ sel_queue' = q
    /\ pc' = "qtest"
    /\ log' = Append(log, "choose")
    /\ UNCHANGED <<retval, sigterm, sighup, opts, interval, cpus, irqs,
                   affinity, owner, cpu_load, have_prev, kaff, freed,
                   hup_pending, cfghist, new_irqs, prior, placed>>

\* Cpu.load is read by choose_irqs_to_move and balance only, and the next
\* tick's gather_statistics sets it before either reads it again: the model
\* drops the sample, and the note of which IRQs were new, at its last use.
SampleUsed ==
    /\ cpu_load' = NoLoad
    /\ new_irqs' = {}

\* A queue test that balances whatever the queue holds.
QueueTest_always_balance ==
    /\ pc = "qtest"
    /\ interval' = opts.short_interval
    /\ pc' = "balance"
    /\ UNCHANGED <<retval, sigterm, sighup, opts, engine, freed, hup_pending,
                   cfghist, log, tickhist>>

\* A queue test with the two intervals exchanged.
QueueTest_swapped_intervals ==
    /\ pc = "qtest"
    /\ IF balance_irqs # {}
       THEN /\ interval' = opts.long_interval
            /\ pc' = "balance"
            /\ UNCHANGED <<cpu_load, new_irqs>>
       ELSE /\ interval' = opts.short_interval
            /\ pc' = "sleep"
            /\ SampleUsed
    /\ UNCHANGED <<retval, sigterm, sighup, opts, cpus, irqs, affinity, owner,
                   have_prev, balance_irqs, kaff, freed, hup_pending, cfghist,
                   log, sel_queue, prior, placed>>

\* Lines 229..231 and 242..245: the test of the queue length and the choice
\* of the interval.
QueueTest ==
    /\ pc = "qtest"
    /\ IF balance_irqs # {}
       THEN /\ interval' = opts.short_interval
            /\ pc' = "balance"
            /\ UNCHANGED <<cpu_load, new_irqs>>
       ELSE /\ interval' = opts.long_interval
            /\ pc' = "sleep"
            /\ SampleUsed
    /\ UNCHANGED <<retval, sigterm, sighup, opts, cpus, irqs, affinity, owner,
                   have_prev, balance_irqs, kaff, freed, hup_pending, cfghist,
                   log, sel_queue, prior, placed>>

\* What balance's result does to the model: an IRQ with a destination gets
\* the single-bit mask of that CPU and moves to its list; one without keeps
\* its mask and its owner.
Commit(d) ==
    /\ placed' = d
    /\ prior' = affinity
    /\ affinity' = [i \in IRQS |-> IF d[i] # NoCpu THEN {d[i]}
                                   ELSE affinity[i]]
    /\ owner' = [i \in IRQS |-> IF d[i] # NoCpu THEN d[i] ELSE owner[i]]

\* A placement that is handed the threshold where the load limit belongs.
Balance_threshold_as_load_limit ==
    /\ pc = "balance"
    /\ Commit(balance(cpus, balance_irqs, opts.threshold, opts.exclude_cpus,
                      opts.non_local_cpus))
    /\ SampleUsed
    /\ pc' = "apply"
    /\ log' = Append(log, "balance")
    /\ UNCHANGED <<retval, sigterm, sighup, opts, interval, cpus, irqs,
                   have_prev, balance_irqs, kaff, freed, hup_pending, cfghist,
                   sel_queue>>

\* Lines 233..234: balance(cpus, balance_irqs, opts->load_limit,
\* &opts->exclude_cpus, opts->non_local_cpus).
Balance ==
    /\ pc = "balance"
    /\ Commit(balance(cpus, balance_irqs, opts.load_limit, opts.exclude_cpus,
                      opts.non_local_cpus))
    /\ SampleUsed
    /\ pc' = "apply"
    /\ log' = Append(log, "balance")
    /\ UNCHANGED <<retval, sigterm, sighup, opts, interval, cpus, irqs,
                   have_prev, balance_irqs, kaff, freed, hup_pending, cfghist,
                   sel_queue>>

\* apply_affinity(balance_irqs): the mask of each queued IRQ is written to
\* the kernel; the writes in `failed` are refused and only logged.
apply_affinity(failed) ==
    kaff' = [i \in IRQS |-> IF i \in balance_irqs \ failed
                            THEN affinity[i] ELSE kaff[i]]

\* A write stage that a termination signal cuts short: the tick is given up
\* with nothing written.
Apply_unless_signalled ==
    /\ pc = "apply"
    /\ IF sigterm = 1
       THEN /\ pc' = "loop_test"
            /\ log' = log
            /\ UNCHANGED kaff
       ELSE /\ \E failed \in SUBSET balance_irqs : apply_affinity(failed)
            /\ pc' = "clear"
            /\ log' = Append(log, "apply")
    /\ UNCHANGED <<retval, sigterm, sighup, opts, interval, cpus, irqs,
                   affinity, owner, cpu_load, have_prev, balance_irqs, freed,
                   hup_pending, cfghist, tickhist>>

\* Line 236: apply_affinity(); its return value is not looked at.
Apply ==
    /\ pc = "apply"
    /\ \E failed \in SUBSET balance_irqs : apply_affinity(failed)
    /\ pc' = "clear"
    /\ log' = Append(log, "apply")
    /\ UNCHANGED <<retval, sigterm, sighup, opts, interval, cpus, irqs,
                   affinity, owner, cpu_load, have_prev, balance_irqs, freed,
                   hup_pending, cfghist, tickhist>>

\* A clearing that leaves in the queue the IRQs balance could not place.
Clear_keep_unplaced ==
    /\ pc = "clear"
    /\ balance_irqs' = {i \in balance_irqs : placed[i] = NoCpu}
    /\ placed' = NoIrqs
    /\ prior' = NoMasks
    /\ pc' = "sleep"
    /\ log' = Append(log, "clear")
    /\ UNCHANGED <<retval, sigterm, sighup, opts, interval, cpus, irqs,
                   affinity, owner, cpu_load, have_prev, kaff, freed,
                   hup_pending, cfghist, sel_queue, new_irqs>>

\* Lines 238..241: the queue is emptied.  The placements of the tick are
\* history from here on.
Clear ==
    /\ pc = "clear"
    /\ balance_irqs' = {}
    /\ placed' = NoIrqs
    /\ prior' = NoMasks
    /\ pc' = "sleep"
    /\ log' = Append(log, "clear")
    /\ UNCHANGED <<retval, sigterm, sighup, opts, interval, cpus, irqs,
                   affinity, owner, cpu_load, have_prev, kaff, freed,
                   hup_pending, cfghist, sel_queue, new_irqs>>

\* Line 248: sleep(interval); it ends when the time is up or a signal
\* arrives.  interval is assigned again before it is next read: the model
\* forgets it here.
Sleep ==
    /\ pc = "sleep"
    /\ pc' = "loop_test"
    /\ interval' = 0
    /\ log' = Append(log, "sleep")
    /\ UNCHANGED <<retval, sigterm, sighup, opts, engine, freed, hup_pending,
                   cfghist, tickhist>>

\* Lines 251..258: the lists are freed and retval becomes 0.
Cleanup ==
    /\ pc = "cleanup"
    /\ freed' = TRUE
    /\ retval' = 0
    /\ pc' = "err"
    /\ UNCHANGED <<sigterm, sighup, opts, interval, engine, hup_pending,
                   cfghist, log, tickhist>>

\* Lines 259..272: the pidfile is unlinked, the options freed, main returns
\* retval.
Exit ==
    /\ pc = "err"
    /\ pc' = "done"
    /\ UNCHANGED <<retval, sigterm, sighup, opts, interval, engine, freed,
                   hup_pending, cfghist, log, tickhist>>

\* The steps of main().
Main ==
    \/ StartupConfig
    \/ Daemonize
    \/ OpenPidfile
    \/ PidfileWarn
    \/ Setup
    \/ LoopTest
    \/ ReconfigTest
    \/ ReconfigRead
    \/ ReconfigReset
    \/ Scan
    \/ Link
    \/ Gather
    \/ Choose
    \/ QueueTest
    \/ Balance
    \/ Apply
    \/ Clear
    \/ Sleep
    \/ Cleanup
    \/ Exit

Next ==
    \/ Main
    \/ sighandler
    \/ sighup_handler

Spec == Init /\ [][Next]_vars

\* main() is a running process: whenever it has a next statement it
\* executes it (every call returns and sleep() ends).
FairSpec == Spec /\ WF_vars(Main)

(***************************************************************************)
(* Properties of the main loop                                             *)
(***************************************************************************)

\* The stages of a tick that finds IRQs to move, and of one that does not.
ActiveTick == <<"reconfig", "scan", "link", "gather", "choose", "balance",
                "apply", "clear", "sleep">>

IdleTick == <<"reconfig", "scan", "link", "gather", "choose", "sleep">>

IsPrefix(s, t) ==
    /\ Len(s) <= Len(t)
    /\ \A k \in 1 .. Len(s) : s[k] = t[k]

Logged(stage) == \E k \in 1 .. Len(log) : log[k] = stage

TimesLogged(stage) == Cardinality({k \in 1 .. Len(log) : log[k] = stage})

\* C1: within one tick the stages run in the order reconfiguration check,
\* rescan, CPU linking, statistics, selection, then balance, affinity write
\* and queue clear, then sleep; no stage runs twice or out of order, and
\* balance, write and clear run exactly when the selection left the queue
\* non-empty.
C1_StageOrder ==
    /\ IsPrefix(log, ActiveTick) \/ IsPrefix(log, IdleTick)
    /\ (Logged("balance") \/ Logged("apply") \/ Logged("clear"))
          => sel_queue # {}
    /\ Logged("sleep")
          => log = (IF sel_queue # {} THEN ActiveTick ELSE IdleTick)

\* A tick that balanced has run to its end.
C1_Witness ==
    /\ pc = "loop_test"
    /\ log = ActiveTick
    /\ sel_queue # {}

\* C2: every tick sleeps exactly once, as its last stage, and the interval
\* it sleeps is the short one exactly when the queue was non-empty after the
\* selection, the long one otherwise.
C2_OneSleepPerTick ==
    /\ TimesLogged("sleep") <= 1
    /\ Logged("sleep") => log[Len(log)] = "sleep"
    /\ (pc = "loop_test" /\ log # <<>>) => TimesLogged("sleep") = 1
    /\ pc = "sleep"
          => interval = (IF sel_queue # {} THEN opts.short_interval
                         ELSE opts.long_interval)

\* A tick with a non-empty queue is about to sleep, and the two intervals
\* differ.
C2_Witness ==
    /\ pc = "sleep"
    /\ sel_queue # {}
    /\ interval = opts.short_interval
    /\ opts.short_interval # opts.long_interval

(***************************************************************************)
(* Properties of the configuration and of the placement                    *)
(***************************************************************************)

\* The CPUs a mask text names; none when the key is absent.
MaskOf(f, key, txt) ==
    IF Has(f, key) THEN cpumask_parse_user(txt, {}).mask ELSE {}

\* The effective exclusion mask the config file named n asks for: the CPUs
\* of exclude-cpus together with those outside use-cpus.
EffectiveExclusion(n) ==
    IF n = "none" THEN {}
    ELSE LET f == ConfigFile(n)
         IN  MaskOf(f, "exclude-cpus", f.exclude_cpus)
                \cup (IF Has(f, "use-cpus")
                      THEN AllCpus \ MaskOf(f, "use-cpus", f.use_cpus)
                      ELSE {})

\* C3: the affinity written for an IRQ that balance placed is disjoint from
\* the effective exclusion mask of the configuration in force, the one the
\* last successful load put in place, also after reloads that failed.
C3_PlacedOutsideExclusion ==
    pc = "apply"
       => \A i \in balance_irqs :
             placed[i] # NoCpu
                => affinity[i] \cap EffectiveExclusion(inforce) = {}

\* C4 as stated: no IRQ owned by a CPU whose sampled load is below the
\* threshold is queued and moved to another CPU in that tick.
C4_NoEvictionBelowThreshold ==
    [][(pc = "balance" /\ pc' = "apply")
          => \A i \in balance_irqs :
                (owner[i] # NoCpu /\ cpu_load[owner[i]] < opts.threshold)
                   => owner'[i] = owner[i]]_vars

\* C4 amended: an IRQ that the selection put in the queue is owned by a CPU
\* whose sampled load is at or above the threshold and that is not
\* excluded; only the IRQs the rescan of the tick discovered are queued
\* whatever the load of their owner.
C4_SelectedFromLoadedCpus ==
    pc \in {"qtest", "balance"}
       => \A i \in balance_irqs \ new_irqs :
             /\ owner[i] \in cpus
             /\ cpu_load[owner[i]] >= opts.threshold
             /\ owner[i] \notin opts.exclude_cpus

\* The selection queued an IRQ of a loaded CPU and left alone the IRQ of a
\* CPU below the threshold.
C4_Witness ==
    /\ pc = "qtest"
    /\ new_irqs = {}
    /\ balance_irqs # {}
    /\ \E j \in irqs \ balance_irqs :
          /\ owner[j] \in cpus
          /\ cpu_load[owner[j]] < opts.threshold

\* The CPUs balance may place IRQ i on, from the sample and the options.
Eligible(i) ==
    LET fit == {c \in cpus : /\ c \notin opts.exclude_cpus
                             /\ cpu_load[c] < opts.load_limit}
    IN  IF LocalCpus(i) = AllCpus \/ fit \cap LocalCpus(i) # {}
        THEN fit \cap LocalCpus(i)
        ELSE IF opts.non_local_cpus # 0 THEN fit ELSE {}

\* C5: balance gives a queued IRQ a destination whose sampled load is below
\* the load limit, the least loaded of its candidates, or it finds no
\* candidate and leaves the IRQ on its current affinity.
C5_DestinationBelowLoadLimit ==
    [][(pc = "balance" /\ pc' = "apply")
          => \A i \in balance_irqs :
                IF Eligible(i) # {}
                THEN /\ placed'[i] \in Eligible(i)
                     /\ cpu_load[placed'[i]] < opts.load_limit
                     /\ \A d \in Eligible(i) :
                           \/ cpu_load[placed'[i]] < cpu_load[d]
                           \/ /\ cpu_load[placed'[i]] = cpu_load[d]
                              /\ placed'[i] <= d
                     /\ affinity'[i] = {placed'[i]}
                ELSE /\ placed'[i] = NoCpu
                     /\ affinity'[i] = affinity[i]
                     /\ owner'[i] = owner[i]]_vars

\* In one tick balance moved an IRQ to another CPU and found no candidate
\* for another IRQ.
C5_Witness ==
    /\ pc = "apply"
    /\ \E i \in balance_irqs :
          /\ placed[i] # NoCpu
          /\ prior[i] # affinity[i]
    /\ \E j \in balance_irqs :
          /\ placed[j] = NoCpu
          /\ affinity[j] = prior[j]

(***************************************************************************)
(* Properties of termination, of errors and of reloads                     *)
(***************************************************************************)

\* C6: once a termination signal has set the flag it stays set, the test
\* at the top of the loop that finds it set starts no new tick, and main
\* goes on to release its resources and return 0.
C6_CooperativeTermination ==
    /\ [][sigterm = 1 => sigterm' = 1]_vars
    /\ [][(pc = "loop_test" /\ sigterm = 1)
             => pc' \in {"loop_test", "cleanup"}]_vars
    /\ (sigterm = 1) ~> (pc = "done" /\ freed /\ retval = 0)

\* main has returned 0 after a termination signal that ended a loop which
\* had sampled statistics.
C6_Witness ==
    /\ pc = "done"
    /\ sigterm = 1
    /\ freed
    /\ retval = 0
    /\ have_prev

\* C7: whatever the stages of a tick report, the next statement of main is
\* again one of the loop; the loop is left only by the test at its top, and
\* only with the termination flag set.
C7_LoopSurvivesErrors ==
    [][(pc \in LoopPcs /\ pc' \notin LoopPcs)
          => (pc = "loop_test" /\ sigterm = 1 /\ pc' = "cleanup")]_vars

\* A tick in which the kernel refused the affinity write of a placed IRQ
\* has gone on to the clearing of the queue.
C7_Witness ==
    /\ pc = "clear"
    /\ sigterm = 0
    /\ \E i \in balance_irqs :
          /\ placed[i] # NoCpu
          /\ kaff[i] # affinity[i]

\* C8: when parse_config fails on a reload, every option has afterwards the
\* value the configuration loaded before gave it.
C8_FailedReloadKeepsConfig ==
    [][(pc = "reconfig_read" /\ inforce # "none" /\ last_parse'.rc = "fail")
          => opts' = opts]_vars

\* C9: a SIGHUP whose request no parse of the readable config file has
\* served yet is still recorded in the flag, so that a later tick serves it.
C9_NoRequestLost ==
    (hup_pending /\ last_parse.rc \in {"ok", "fail"}) => sighup = 1

\* C10: after a successful parse_config the exclusion mask is the union of
\* the file's exclude-cpus (empty if absent) and the complement of its
\* use-cpus (all CPUs if absent), whatever mask an earlier load left.
C10_MaskFromFileOnly ==
    last_parse.rc = "ok"
       => opts.exclude_cpus = EffectiveExclusion(last_parse.file)

\* A reload has parsed the file that holds both keys, after an earlier load
\* of another file, and the mask is the union of the file's two parts.
C10_Witness ==
    /\ pc = "reconfig_reset"
    /\ last_parse = [rc |-> "ok", file |-> "use"]
    /\ opts.exclude_cpus = {1, 2}
    /\ have_prev

(***************************************************************************)
(* Properties of the options' values                                       *)
(***************************************************************************)

\* No config file that was loaded holds the key.
Unset(key) == inforce = "none" \/ ~Has(ConfigFile(inforce), key)

\* C11: while the tick loop runs, every option that no config file has set
\* holds its documented default: strategy rnd, threshold 99, load-limit 99,
\* short-interval 2, long-interval 5, exclude-cpus empty, ht y,
\* non-local-cpus n; also when the daemon started without a config file.
C11_DefaultsWhenUnset ==
    pc \in LoopPcs
       => /\ Unset("strategy") => opts.strategy = "rnd"
          /\ Unset("threshold") => opts.threshold = 99
          /\ Unset("load-limit") => opts.load_limit = 99
          /\ Unset("short-interval") => opts.short_interval = 2
          /\ Unset("long-interval") => opts.long_interval = 5
          /\ (Unset("exclude-cpus") /\ Unset("use-cpus"))
                => opts.exclude_cpus = {}
          /\ Unset("ht") => opts.ht = 1
          /\ Unset("non-local-cpus") => opts.non_local_cpus = 0

\* C12: main returns 0 exactly on clean termination, and a startup error
\* (bad config, bad mask, pidfile that cannot be written) makes it return
\* non-zero without the tick loop ever being entered.
C12_ExitCodes ==
    [][/\ (pc = "err" /\ pc' = "done") => (retval' = 0 <=> freed)
       /\ (pc \in StartupPcs /\ pc' = "err") => retval' # 0
       /\ pc = "pidfile_warn" => pc' \in {"pidfile_warn", "err"}]_vars

\* C13: a config load succeeds only with values in their documented
\* ranges: after a successful parse_config the threshold and the load limit
\* lie in 0..100 and both intervals are at least 1; the file with a
\* negative threshold and load limit and a zero and a negative interval is
\* rejected.
C13_ValuesInRange ==
    /\ last_parse.rc = "ok"
          => /\ 0 <= opts.threshold /\ opts.threshold <= 100
             /\ 0 <= opts.load_limit /\ opts.load_limit <= 100
             /\ opts.short_interval >= 1
             /\ opts.long_interval >= 1
    /\ last_parse.file = "range" => last_parse.rc = "fail"

(***************************************************************************)
(* Properties of the topology, the registry and the queue                  *)
(***************************************************************************)

\* C14: in every tick, when the statistics are about to be sampled, the IRQ
\* registry has been re-read in that tick and so has the CPU topology: a
\* CPU that scan_cpus would list now is in the CPU list.
C14_TopologyRefreshed ==
    pc = "gather"
       => /\ Logged("scan")
          /\ scan_cpus(opts.ht) \subseteq cpus

\* Every CPU of the model shows a sampled load below the threshold.
Idle == \A c \in cpus : cpu_load[c] < opts.threshold

Placed == {i \in balance_irqs : placed[i] # NoCpu}

\* C16 as stated: when the write stage of a tick is over, either every IRQ
\* placed in the tick has its new mask in the kernel or none has.
C16_AllWritesOrNone ==
    pc = "clear"
       => \/ \A i \in Placed : kaff[i] = affinity[i]
          \/ \A i \in Placed : kaff[i] # affinity[i]

\* C16 amended: a signal never cuts a tick's writes short: a handler step
\* changes neither main's position nor a mask nor the queue, the write
\* stage is followed by the clearing of the queue whatever flags are set,
\* and it alone writes masks: each queued IRQ ends with its new mask or,
\* when the kernel refused the write, with the mask it had.
C16_WritesNotCutBySignals ==
    [][/\ (sigterm' # sigterm \/ sighup' > sighup)
             => UNCHANGED <<pc, kaff, affinity, balance_irqs, placed>>
       /\ pc = "apply" => pc' \in {"apply", "clear"}
       /\ (pc = "apply" /\ pc' = "clear")
             => \A i \in IRQS :
                   IF i \in balance_irqs
                   THEN kaff'[i] \in {affinity[i], kaff[i]}
                   ELSE kaff'[i] = kaff[i]
       /\ (pc \in {"gather", "choose", "qtest", "balance", "clear"})
             => kaff' = kaff]_vars

\* A termination signal arrived during a tick whose write stage committed
\* the mask of one placed IRQ and was refused the mask of another.
C16_Witness ==
    /\ pc = "clear"
    /\ sigterm = 1
    /\ \E i \in Placed : kaff[i] = affinity[i] /\ prior[i] # affinity[i]
    /\ \E j \in Placed : kaff[j] # affinity[j]

\* main's positions after the re-link step and after the placement commit
\* of a tick, up to the clearing of the queue.
Linked == pc \in {"gather", "choose", "qtest", "balance", "apply", "clear"}

\* C17 as stated: after the re-link step and after the placement commit the
\* owner of every IRQ of the registry is the lowest-numbered CPU of its
\* affinity mask, also with ht disabled.
C17_OwnerIsLowestOfMask ==
    Linked => \A i \in irqs : owner[i] = Min(affinity[i])

\* C17 amended: the owner of every IRQ of the registry is one CPU of the
\* CPU list: the lowest-numbered CPU of the affinity mask when the list
\* holds it, and otherwise, with ht disabled, the lowest-numbered CPU of
\* the list on the same core, which is not in the mask.
C17_OwnerIsLowestOrSibling ==
    Linked
       => \A i \in irqs :
             LET m == Min(affinity[i])
             IN  /\ owner[i] \in cpus
                 /\ m \in cpus => owner[i] = m
                 /\ m \notin cpus
                       => /\ CoreId[owner[i] + 1] = CoreId[m + 1]
                          /\ \A c \in cpus :
                                CoreId[c + 1] = CoreId[m + 1] => owner[i] <= c

\* With ht disabled an IRQ whose mask names the omitted CPU 2 is owned by
\* CPU 0, while another IRQ is owned by the lowest CPU of its mask.
C17_Witness ==
    /\ pc = "gather"
    /\ cpus = {0, 1}
    /\ \E i \in irqs : affinity[i] = {2} /\ owner[i] = 0
    /\ \E j \in irqs : affinity[j] = {0, 1} /\ owner[j] = 0

(***************************************************************************)
(* Properties of a reconfiguration                                         *)
(***************************************************************************)

\* C18: the steps of a reconfiguration, whether the parse succeeds or
\* fails, leave the CPU list, the IRQ registry with its masks and owners,
\* the balance queue, the samples and the termination flag as they were;
\* a changed ht value does not alter the CPU list built at startup.
C18_ReconfigChangesOnlyOptions ==
    [][(pc \in {"reconfig_test", "reconfig_read", "reconfig_reset"}
          /\ pc' # pc)
          => UNCHANGED <<cpus, irqs, affinity, owner, balance_irqs, kaff,
                         cpu_load, have_prev, sigterm, retval, interval>>]_vars

\* A reload has read ht=n while the CPU list still holds all three CPUs and
\* the registry its IRQs.
C18_Witness ==
    /\ pc = "reconfig_reset"
    /\ last_parse.rc = "ok"
    /\ opts.ht = 0
    /\ cpus = AllCpus
    /\ irqs # {}

\* main's positions from the end of the reconfiguration check to the sleep.
TickBody == {"scan", "link", "gather", "choose", "qtest", "balance", "apply",
             "clear", "sleep"}

\* C19: a signal handler does nothing but set its flag; the termination
\* flag decides main's way only at the loop test and the reload flag only
\* at the reconfiguration check; and from the end of that check to the
\* sleep of the tick no option changes, whenever signals arrive.
C19_ConfigFixedWithinTick ==
    [][/\ pc \in TickBody => opts' = opts
       /\ (sigterm' # sigterm \/ sighup' > sighup)
             => /\ sigterm' \in {sigterm, 1}
                /\ UNCHANGED <<pc, opts, interval, retval, cpus, irqs,
                               affinity, owner, balance_irqs, kaff>>
       /\ (pc' = "cleanup" /\ pc # "cleanup")
             => (pc = "loop_test" /\ sigterm = 1)
       /\ (pc' = "reconfig_read" /\ pc # "reconfig_read")
             => (pc = "reconfig_test" /\ sighup = 1)
       /\ (pc \in TickBody /\ pc' # pc) => pc' \in TickBody \cup {"loop_test"}]_vars

\* Both signals arrived after the reconfiguration check of a tick that is
\* now about to place its queue.
C19_Witness ==
    /\ pc = "balance"
    /\ sighup = 1
    /\ hup_pending
    /\ sigterm = 1
    /\ balance_irqs # {}

\* C20: the balance queue is empty at every sleep and from there to the
\* rescan of the next tick: whatever was queued in a tick is gone before
\* the tick sleeps, placed and written or not.
C20_QueueEmptyAtSleep ==
    pc \in {"sleep", "loop_test", "reconfig_test", "reconfig_read",
            "reconfig_reset", "scan"}
       => balance_irqs = {}

\* A tick that queued an IRQ whose affinity write was refused is about to
\* sleep with the queue empty.
C20_Witness ==
    /\ pc = "sleep"
    /\ balance_irqs = {}
    /\ \E i \in sel_queue : kaff[i] # affinity[i]

====
